---- MODULE Spec2Model ----
(***************************************************************************)
(* Model of the stop / calendar reference-data import of navitia_model:    *)
(*   src/src/transxchange/naptan.rs  (read_stop_areas, read_stops_in_area, *)
(*       read_stops, validate_stops, read_naptan)                          *)
(*   src/src/common_format.rs        (insert_calendar_date,                *)
(*       manage_calendars)                                                 *)
(* A CSV file is a sequence of rows; a row either decodes into a typed     *)
(* record (ok = TRUE) or is malformed (ok = FALSE).  A planar f64 field is *)
(* a finite number of metres or a non-finite value (inf, NaN); geographic  *)
(* coordinates are integers, thousandths of a degree.                      *)
(***************************************************************************)
EXTENDS Integers, Sequences, FiniteSets, TLC

VARIABLES call, pc, input, stops_in_area, stop_areas, stop_points,
          collections, collections0, ret

vars == <<call, pc, input, stops_in_area, stop_areas, stop_points,
          collections, collections0, ret>>

(***************************************************************************)
(* Bounds of the model.                                                    *)
(***************************************************************************)
MaxRows == 3
MaxEntryRows == 2

(***************************************************************************)
(* Result<T>: Ok(value), or Err with the kind of error, the 1-based row    *)
(* the function was processing when it returned, and the identifier the    *)
(* error message names ("" when it names none).  An Err carries no value.  *)
(***************************************************************************)
Ok(v) == [status |-> "Ok", kind |-> "none", row |-> 0, id |-> "", value |-> v]

Err(kind, row, id) ==
  [status |-> "Err", kind |-> kind, row |-> row, id |-> id, value |-> <<>>]

NotReturned ==
  [status |-> "Running", kind |-> "none", row |-> 0, id |-> "", value |-> <<>>]

(***************************************************************************)
(* CollectionWithId<T>: entities in insertion order, identifiers unique.   *)
(***************************************************************************)
Ids(collection) == {collection[i].id : i \in DOMAIN collection}

IdSeq(collection) == [i \in DOMAIN collection |-> collection[i].id]

UniqueIds(collection) ==
  \A i, j \in DOMAIN collection : collection[i].id = collection[j].id => i = j

\* get_idx: Some(idx) as the 1-based index, None as 0.
get_idx(collection, id) ==
  IF id \in Ids(collection)
  THEN CHOOSE i \in DOMAIN collection : collection[i].id = id
  ELSE 0

\* get: the entity stored under id (for an id of the collection).
get(collection, id) == collection[get_idx(collection, id)]

\* push: fails when the identifier is already present, else appends.
push(collection, item) ==
  IF item.id \in Ids(collection)
  THEN Err("duplicate", 0, item.id)
  ELSE Ok(Append(collection, item))

\* try_merge: push every item of other in order; stops at the first
\* collision, keeping the items pushed before it in dest.
RECURSIVE try_merge(_, _)
try_merge(collection, other) ==
  IF other = <<>> THEN [status |-> "Ok", id |-> "", col |-> collection]
  ELSE LET p == push(collection, Head(other)) IN
       IF p.status = "Err"
       THEN [status |-> "Err", id |-> p.id, col |-> collection]
       ELSE try_merge(p.value, Tail(other))

(***************************************************************************)
(* Input domains.                                                          *)
(***************************************************************************)
SeqsUpTo(S, n) == UNION {[1..k -> S] : k \in 0..n}

StopAreaCodes == {"", "010G0001", "010G0002"}
AtcoCodes == {"", "0100053316", "0100053264"}
AreaNames == {"Bristol Bus Station", "Temple Meads"}
StopNames == {"Broad Walk Shops", "Alberton Road"}

\* f64 values of the Easting and Northing columns: a finite number of
\* metres, or a non-finite value ("inf" and "NaN" parse as f64).
Metres(v) == [finite |-> TRUE, v |-> v]

NonFinite == [finite |-> FALSE, v |-> 0]

\* (easting, northing) pairs: the two stop areas of the tests, a point west of
\* the grid's origin, and a pair with a non-finite easting.
PlanarPoints ==
  {<<Metres(358929), Metres(173523)>>, <<Metres(359657), Metres(172418)>>,
   <<Metres(-1), Metres(173523)>>, <<NonFinite, Metres(173523)>>}

NaPTANStopAreas ==
  {[ok |-> TRUE, stop_area_code |-> c, name |-> n,
    easting |-> p[1], northing |-> p[2]] :
     c \in StopAreaCodes, n \in AreaNames, p \in PlanarPoints}

MalformedStopArea ==
  [ok |-> FALSE, stop_area_code |-> "", name |-> "",
   easting |-> NonFinite, northing |-> NonFinite]

NaPTANStopsInArea ==
  [ok : {TRUE}, atco_code : AtcoCodes, stop_area_code : StopAreaCodes]

MalformedStopInArea == [ok |-> FALSE, atco_code |-> "", stop_area_code |-> ""]

NaPTANStops ==
  [ok : {TRUE}, atco_code : AtcoCodes, name : StopNames,
   longitude : {-2588}, latitude : {51456}, indicator : {"Stop B"}]

MalformedStop ==
  [ok |-> FALSE, atco_code |-> "", name |-> "", longitude |-> 0,
   latitude |-> 0, indicator |-> ""]

\* HashMap<String, String>: a function on a subset of the stop codes.
Memberships == UNION {[D -> StopAreaCodes] : D \in SUBSET AtcoCodes}

(***************************************************************************)
(* naptan.rs                                                               *)
(***************************************************************************)
Point_new(x, y) == [x |-> x, y |-> y]

\* Proj::new_known_crs(from, to, None): Some(converter) for a known pair.
Proj_new_known_crs(from, to) ==
  IF from = "EPSG:27700" /\ to = "+proj=longlat +datum=WGS84 +no_defs"
  THEN [some |-> TRUE, from |-> from, to |-> to]
  ELSE [some |-> FALSE, from |-> from, to |-> to]

\* Faulty variant of convert: the planar coordinate is kept as it is.
convert_unprojected(point) ==
  IF ~point.x.finite \/ ~point.y.finite
  THEN Err("projection", 0, "")
  ELSE Ok([lon |-> point.x.v, lat |-> point.y.v])

\* converter.convert(point).map(Coord::from): EPSG:27700 metres to WGS84
\* longitude and latitude, here in thousandths of a degree.  The conversion
\* has no guard on the range of the point; it fails on a non-finite
\* coordinate.  The transform is tabulated on the points of PlanarPoints.
convert(point) ==
  IF ~point.x.finite \/ ~point.y.finite
  THEN Err("projection", 0, "")
  ELSE CASE point.x.v = 358929 /\ point.y.v = 173523
              -> Ok([lon |-> -2593, lat |-> 51459])
         [] point.x.v = 359657 /\ point.y.v = 172418
              -> Ok([lon |-> -2582, lat |-> 51449])
         [] point.x.v = -1 /\ point.y.v = 173523
              -> Ok([lon |-> -7743, lat |-> 51320])

\* Faulty variant of new_stop_area: the identifier is taken from the name.
new_stop_area_id_from_name(stop_area, coord) ==
  [id |-> stop_area.name, name |-> stop_area.name, coord |-> coord]

\* StopArea { id, name, coord, ..Default::default() }
new_stop_area(stop_area, coord) ==
  [id |-> stop_area.stop_area_code, name |-> stop_area.name, coord |-> coord]

RECURSIVE read_stop_areas_from(_, _, _)
read_stop_areas_from(rows, i, acc) ==
  IF i > Len(rows) THEN Ok(acc)
  ELSE LET stop_area == rows[i] IN
       IF ~stop_area.ok THEN Err("decode", i, "")
       ELSE LET point == Point_new(stop_area.easting, stop_area.northing)
                coord == convert(point)
            IN IF coord.status = "Err"
               THEN Err(coord.kind, i, coord.id)
               ELSE LET p == push(acc, new_stop_area(stop_area, coord.value))
                    IN IF p.status = "Err" THEN Err("duplicate", i, p.id)
                       ELSE read_stop_areas_from(rows, i + 1, p.value)

read_stop_areas(rows) ==
  IF ~Proj_new_known_crs("EPSG:27700",
                         "+proj=longlat +datum=WGS84 +no_defs").some
  THEN Err("converter", 0, "")
  ELSE read_stop_areas_from(rows, 1, <<>>)

\* collect() into a HashMap: a later row for the same stop code overwrites.
RECURSIVE read_stops_in_area_from(_, _, _)
read_stops_in_area_from(rows, i, acc) ==
  IF i > Len(rows) THEN Ok(acc)
  ELSE LET stop_in_area == rows[i] IN
       IF ~stop_in_area.ok THEN Err("decode", i, "")
       ELSE read_stops_in_area_from(rows, i + 1,
              [k \in DOMAIN acc \cup {stop_in_area.atco_code} |->
                 IF k = stop_in_area.atco_code
                 THEN stop_in_area.stop_area_code ELSE acc[k]])

read_stops_in_area(rows) == read_stops_in_area_from(rows, 1, <<>>)

\* Faulty variant of stop_area_id_of: a missing key yields the default string.
stop_area_id_or_default(stop, membership) ==
  IF stop.atco_code \in DOMAIN membership
  THEN Ok(membership[stop.atco_code])
  ELSE Ok("")

\* stops_in_area.get(&stop.atco_code).cloned().ok_or_else(..)
stop_area_id_of(stop, membership) ==
  IF stop.atco_code \in DOMAIN membership
  THEN Ok(membership[stop.atco_code])
  ELSE Err("unresolved", 0, stop.atco_code)

\* StopPoint { id, name, coord, stop_area_id, platform_code, .. }
new_stop_point(stop, stop_area_id) ==
  [id |-> stop.atco_code, name |-> stop.name,
   coord |-> [lon |-> stop.longitude, lat |-> stop.latitude],
   stop_area_id |-> stop_area_id, platform_code |-> stop.indicator]

RECURSIVE read_stops_from(_, _, _, _)
read_stops_from(rows, membership, i, acc) ==
  IF i > Len(rows) THEN Ok(acc)
  ELSE LET stop == rows[i] IN
       IF ~stop.ok THEN Err("decode", i, "")
       ELSE LET area == stop_area_id_of(stop, membership) IN
            IF area.status = "Err" THEN Err("unresolved", i, area.id)
            ELSE LET p == push(acc, new_stop_point(stop, area.value))
                 IN IF p.status = "Err" THEN Err("duplicate", i, p.id)
                    ELSE read_stops_from(rows, membership, i + 1, p.value)

read_stops(rows, membership) == read_stops_from(rows, membership, 1, <<>>)

\* unimplemented!(): panics whatever the arguments.
validate_stops(areas, points) == [status |-> "Panic"]

(***************************************************************************)
(* The destination model.                                                  *)
(***************************************************************************)
EmptyModel == [stop_areas |-> <<>>, stop_points |-> <<>>, calendars |-> <<>>]

(***************************************************************************)
(* SpecRead: the readers applied to every bounded input.                   *)
(***************************************************************************)
AreaFiles == SeqsUpTo(NaPTANStopAreas \cup {MalformedStopArea}, MaxRows)
StopFiles == SeqsUpTo(NaPTANStops \cup {MalformedStop}, MaxRows)

InitRead ==
  /\ \/ /\ call = "read_stop_areas"
        /\ input \in AreaFiles
        /\ stops_in_area = <<>>
     \/ /\ call = "read_stops"
        /\ input \in StopFiles
        /\ stops_in_area \in Memberships
  /\ pc = "call"
  /\ stop_areas = <<>>
  /\ stop_points = <<>>
  /\ collections = EmptyModel
  /\ collections0 = EmptyModel
  /\ ret = NotReturned

CallReadStopAreas ==
  /\ call = "read_stop_areas" /\ pc = "call"
  /\ ret' = read_stop_areas(input)
  /\ stop_areas' = ret'.value
  /\ pc' = "return"
  /\ UNCHANGED <<call, input, stops_in_area, stop_points, collections,
                 collections0>>

CallReadStops ==
  /\ call = "read_stops" /\ pc = "call"
  /\ ret' = read_stops(input, stops_in_area)
  /\ stop_points' = ret'.value
  /\ pc' = "return"
  /\ UNCHANGED <<call, input, stops_in_area, stop_areas, collections,
                 collections0>>

NextRead == CallReadStopAreas \/ CallReadStops

SpecRead == InitRead /\ [][NextRead]_vars

(***************************************************************************)
(* Spec: read_naptan, one step per statement of its body.  The entries of  *)
(* the archive are drawn when they are read.                               *)
(***************************************************************************)
OldStopArea ==
  [id |-> "010G0001", name |-> "Old Station", coord |-> [lon |-> 0, lat |-> 0]]

OldStopPoint ==
  [id |-> "0100053316", name |-> "Old Stop", coord |-> [lon |-> 0, lat |-> 0],
   stop_area_id |-> "010G0001", platform_code |-> "Old"]

DestModels ==
  [stop_areas : {<<>>, <<OldStopArea>>}, stop_points : {<<>>, <<OldStopPoint>>},
   calendars : {<<>>}]

\* zip_archive.by_name(..): the entry is missing, or holds rows.
Entries(rows) ==
  {[found |-> FALSE, rows |-> <<>>]}
    \cup [found : {TRUE}, rows : SeqsUpTo(rows, MaxEntryRows)]

StopAreaEntries ==
  Entries({r \in NaPTANStopAreas :
             /\ r.name = "Temple Meads"
             /\ r.easting \in {Metres(358929), NonFinite}}
          \cup {MalformedStopArea})

StopsInAreaEntries == Entries(NaPTANStopsInArea \cup {MalformedStopInArea})

StopEntries ==
  Entries({r \in NaPTANStops : r.name = "Alberton Road"} \cup {MalformedStop})

Running == [status |-> "Running", step |-> "none", kind |-> "none",
            row |-> 0, id |-> ""]

Failed(step, kind, row, id) ==
  [status |-> "Err", step |-> step, kind |-> kind, row |-> row, id |-> id]

Init ==
  /\ call = "read_naptan"
  /\ pc = "open"
  /\ input = [found |-> FALSE, rows |-> <<>>]
  /\ stops_in_area = <<>>
  /\ stop_areas = <<>>
  /\ stop_points = <<>>
  /\ collections \in DestModels
  /\ collections0 = collections
  /\ ret = Running

\* File::open(naptan_path)?  ZipArchive::new(zip_file)?
OpenArchive ==
  /\ call = "read_naptan" /\ pc = "open"
  /\ \E opened \in BOOLEAN :
       IF opened
       THEN pc' = "stop_areas" /\ ret' = ret
       ELSE pc' = "done" /\ ret' = Failed("open", "io", 0, "")
  /\ UNCHANGED <<call, input, stops_in_area, stop_areas, stop_points,
                 collections, collections0>>

\* let stop_areas = read_stop_areas(zip_archive.by_name(STOP_AREAS_FILENAME)?)?;
ReadStopAreasEntry ==
  /\ call = "read_naptan" /\ pc = "stop_areas"
  /\ \E entry \in StopAreaEntries :
       /\ input' = entry
       /\ IF ~entry.found
          THEN /\ pc' = "done" /\ ret' = Failed("stop_areas", "entry", 0, "")
               /\ UNCHANGED stop_areas
          ELSE LET r == read_stop_areas(entry.rows) IN
               IF r.status = "Err"
               THEN /\ pc' = "done"
                    /\ ret' = Failed("stop_areas", r.kind, r.row, r.id)
                    /\ UNCHANGED stop_areas
               ELSE /\ pc' = "stops_in_area" /\ ret' = ret
                    /\ stop_areas' = r.value
  /\ UNCHANGED <<call, stops_in_area, stop_points, collections, collections0>>

\* let stops_in_area = read_stops_in_area(zip_archive.by_name(..)?)?;
ReadStopsInAreaEntry ==
  /\ call = "read_naptan" /\ pc = "stops_in_area"
  /\ \E entry \in StopsInAreaEntries :
       /\ input' = entry
       /\ IF ~entry.found
          THEN /\ pc' = "done" /\ ret' = Failed("stops_in_area", "entry", 0, "")
               /\ UNCHANGED stops_in_area
          ELSE LET r == read_stops_in_area(entry.rows) IN
               IF r.status = "Err"
               THEN /\ pc' = "done"
                    /\ ret' = Failed("stops_in_area", r.kind, r.row, r.id)
                    /\ UNCHANGED stops_in_area
               ELSE /\ pc' = "stops" /\ ret' = ret
                    /\ stops_in_area' = r.value
  /\ UNCHANGED <<call, stop_areas, stop_points, collections, collections0>>

\* let stop_points = read_stops(zip_archive.by_name(..)?, &stops_in_area)?;
ReadStopsEntry ==
  /\ call = "read_naptan" /\ pc = "stops"
  /\ \E entry \in StopEntries :
       /\ input' = entry
       /\ IF ~entry.found
          THEN /\ pc' = "done" /\ ret' = Failed("stops", "entry", 0, "")
               /\ UNCHANGED stop_points
          ELSE LET r == read_stops(entry.rows, stops_in_area) IN
               IF r.status = "Err"
               THEN /\ pc' = "done"
                    /\ ret' = Failed("stops", r.kind, r.row, r.id)
                    /\ UNCHANGED stop_points
               ELSE /\ pc' = "validate" /\ ret' = ret
                    /\ stop_points' = r.value
  /\ UNCHANGED <<call, stops_in_area, stop_areas, collections, collections0>>

Returns == [status |-> "Ok", step |-> "return", kind |-> "none",
            row |-> 0, id |-> ""]

\* collections.stop_areas.try_merge(stop_areas)?;
\* collections.stop_points.try_merge(stop_points)?;
\* Ok(())
\* The outcome and the destination after these statements.
merge_parsed(model, areas, points) ==
  LET merged_areas == try_merge(model.stop_areas, areas) IN
  IF merged_areas.status = "Err"
  THEN [ret |-> Failed("merge_stop_areas", "duplicate", 0, merged_areas.id),
        collections |-> [model EXCEPT !.stop_areas = merged_areas.col]]
  ELSE LET merged_points == try_merge(model.stop_points, points) IN
       [ret |-> IF merged_points.status = "Err"
                THEN Failed("merge_stop_points", "duplicate", 0,
                            merged_points.id)
                ELSE Returns,
        collections |-> [model EXCEPT !.stop_areas = merged_areas.col,
                                      !.stop_points = merged_points.col]]

\* validate_stops(&stop_areas, &stop_points)?;
\* collections.stop_areas.try_merge(stop_areas)?;
\* collections.stop_points.try_merge(stop_points)?;
\* Ok(())
ValidateAndMerge ==
  /\ call = "read_naptan" /\ pc = "validate"
  /\ pc' = "done"
  /\ LET v == validate_stops(stop_areas, stop_points) IN
     IF v.status = "Panic"
     THEN /\ ret' = [status |-> "Panic", step |-> "validate",
                     kind |-> "unimplemented", row |-> 0, id |-> ""]
          /\ UNCHANGED collections
     ELSE IF v.status = "Err"
     THEN /\ ret' = Failed("validate", "invalid", 0, "")
          /\ UNCHANGED collections
     ELSE LET merged == merge_parsed(collections, stop_areas, stop_points) IN
          /\ ret' = merged.ret
          /\ collections' = merged.collections
  /\ UNCHANGED <<call, input, stops_in_area, stop_areas, stop_points,
                 collections0>>

Next ==
  \/ OpenArchive
  \/ ReadStopAreasEntry
  \/ ReadStopsInAreaEntry
  \/ ReadStopsEntry
  \/ ValidateAndMerge

Spec == Init /\ [][Next]_vars

(***************************************************************************)
(* common_format.rs                                                        *)
(***************************************************************************)
ServiceIds == {"S1", "S2"}
Dates == {20180101, 20180102}
ExceptionTypes == {"Add", "Remove"}

CalendarRows == [ok : {TRUE}, service_id : ServiceIds]

MalformedCalendarRow == [ok |-> FALSE, service_id |-> ""]

CalendarDates ==
  [ok : {TRUE}, service_id : ServiceIds, date : Dates,
   exception_type : ExceptionTypes]

MalformedCalendarDate ==
  [ok |-> FALSE, service_id |-> "", date |-> 0, exception_type |-> "Add"]

\* Calendar as deserialized from calendar.txt: no exception yet.
new_calendar(row) == [id |-> row.service_id, calendar_dates |-> <<>>]

\* make_collection_with_id(path, file): every row decoded and pushed into a
\* fresh collection; a missing file, a malformed row or a repeated
\* identifier is an error.
RECURSIVE make_collection_from(_, _, _)
make_collection_from(rows, i, acc) ==
  IF i > Len(rows) THEN Ok(acc)
  ELSE IF ~rows[i].ok THEN Err("decode", i, "")
  ELSE LET p == push(acc, new_calendar(rows[i])) IN
       IF p.status = "Err" THEN Err("duplicate", i, p.id)
       ELSE make_collection_from(rows, i + 1, p.value)

make_collection_with_id(file) ==
  IF ~file.found THEN Err("io", 0, "")
  ELSE make_collection_from(file.rows, 1, <<>>)

\* Faulty variant of insert_calendar_date: an unknown service_id creates the
\* calendar.
insert_calendar_date_creating(collection, calendar_date) ==
  LET idx == get_idx(collection, calendar_date.service_id) IN
  IF idx = 0
  THEN Append(collection,
              [id |-> calendar_date.service_id,
               calendar_dates |->
                 <<<<calendar_date.date, calendar_date.exception_type>>>>])
  ELSE [collection EXCEPT ![idx].calendar_dates =
          Append(@, <<calendar_date.date, calendar_date.exception_type>>)]

\* insert_calendar_date: an unknown service_id is logged and dropped, else the
\* (date, exception_type) pair is pushed onto the calendar's calendar_dates.
insert_calendar_date(collection, calendar_date) ==
  LET idx == get_idx(collection, calendar_date.service_id) IN
  IF idx = 0
  THEN collection
  ELSE [collection EXCEPT ![idx].calendar_dates =
          Append(@, <<calendar_date.date, calendar_date.exception_type>>)]

\* for calendar_date in rdr.deserialize() { .. }: the calendars after the
\* loop, and its outcome; a malformed row returns from manage_calendars.
RECURSIVE read_calendar_dates(_, _, _)
read_calendar_dates(rows, i, calendars) ==
  IF i > Len(rows) THEN [result |-> Ok(<<>>), calendars |-> calendars]
  ELSE IF ~rows[i].ok
  THEN [result |-> Err("decode", i, ""), calendars |-> calendars]
  ELSE read_calendar_dates(rows, i + 1,
                           insert_calendar_date(calendars, rows[i]))

\* manage_calendars(collections, path): the outcome and collections after it.
manage_calendars(model, dir) ==
  LET made == make_collection_with_id(dir.calendar_txt) IN
  IF made.status = "Err"
  THEN [result |-> made, collections |-> model]
  ELSE IF ~dir.calendar_dates_txt.found
  THEN [result |-> Ok(<<>>),
        collections |-> [model EXCEPT !.calendars = made.value]]
  ELSE LET read == read_calendar_dates(dir.calendar_dates_txt.rows, 1,
                                       made.value)
       IN [result |-> read.result,
           collections |-> [model EXCEPT !.calendars = read.calendars]]

(***************************************************************************)
(* SpecCalendars: manage_calendars called on a model that may already hold *)
(* a calendar, for every bounded pair of files.                            *)
(***************************************************************************)
OldCalendar ==
  [id |-> "S1", calendar_dates |-> <<<<20171225, "Remove">>>>]

File(rows, n) ==
  {[found |-> FALSE, rows |-> <<>>]} \cup [found : {TRUE}, rows : SeqsUpTo(rows, n)]

CalendarDirs ==
  [calendar_txt : File(CalendarRows \cup {MalformedCalendarRow}, MaxEntryRows),
   calendar_dates_txt : File(CalendarDates \cup {MalformedCalendarDate}, MaxRows)]

InitCalendars ==
  /\ call = "manage_calendars"
  /\ pc = "call"
  /\ input \in CalendarDirs
  /\ stops_in_area = <<>>
  /\ stop_areas = <<>>
  /\ stop_points = <<>>
  /\ collections \in [stop_areas : {<<>>}, stop_points : {<<>>},
                      calendars : {<<>>, <<OldCalendar>>}]
  /\ collections0 = collections
  /\ ret = NotReturned

ManageCalendars ==
  /\ call = "manage_calendars" /\ pc = "call"
  /\ LET r == manage_calendars(collections, input) IN
     /\ ret' = r.result
     /\ collections' = r.collections
  /\ pc' = "return"
  /\ UNCHANGED <<call, input, stops_in_area, stop_areas, stop_points,
                 collections0>>

NextCalendars == ManageCalendars

SpecCalendars == InitCalendars /\ [][NextCalendars]_vars

(***************************************************************************)
(* Properties of the readers (checked under SpecRead).                     *)
(***************************************************************************)
Returned(f) == call = f /\ pc = "return"

Min(S) == CHOOSE x \in S : \A y \in S : x <= y

\* Rows of a stop file whose stop code is no key of the membership mapping.
UnresolvedRows(rows, membership) ==
  {i \in DOMAIN rows : rows[i].ok /\ rows[i].atco_code \notin DOMAIN membership}

\* Row i of a stop file decodes and does not repeat an earlier stop code.
StopRowClean(rows, i) ==
  /\ rows[i].ok
  /\ \A j \in 1..(i - 1) : ~(rows[j].ok /\ rows[j].atco_code = rows[i].atco_code)

\* C1 as stated: a stop row whose code is not in the membership mapping makes
\* read_stops fail with the error naming the code of the first such row, and
\* no StopPoint collection is returned.
C1_NamesFirstUnresolved ==
  (Returned("read_stops") /\ UnresolvedRows(input, stops_in_area) # {}
     /\ \A i \in DOMAIN input : input[i].ok) =>
    LET f == Min(UnresolvedRows(input, stops_in_area)) IN
    /\ ret.status = "Err"
    /\ ret.kind = "unresolved"
    /\ ret.id = input[f].atco_code
    /\ stop_points = <<>>

\* C1 amended: with an unresolved stop row read_stops always fails and returns
\* no collection; the error is the one of the first failing row: it names the
\* code of the first unresolved row when every earlier row decodes and repeats
\* no earlier code, and is that earlier row's decode or duplicate error
\* otherwise.
C1_UnresolvedStopFails ==
  (Returned("read_stops") /\ UnresolvedRows(input, stops_in_area) # {}) =>
    LET f == Min(UnresolvedRows(input, stops_in_area))
        clean == \A i \in 1..(f - 1) : StopRowClean(input, i)
    IN /\ ret.status = "Err"
       /\ stop_points = <<>>
       /\ clean => /\ ret.row = f
                   /\ ret.kind = "unresolved"
                   /\ ret.id = input[f].atco_code
       /\ ~clean => /\ ret.row < f
                    /\ ret.kind \in {"decode", "duplicate"}

C1_Witness ==
  /\ Returned("read_stops")
  /\ ret.kind = "unresolved"
  /\ ret.row = 3
  /\ ret.id = "0100053264"

\* Index of the first row that repeats the identifier of an earlier row
\* (0 when no identifier is repeated).
SecondOfDuplicate(codes, counted) ==
  LET S == {i \in DOMAIN codes :
              counted[i] /\ \E j \in 1..(i - 1) : counted[j] /\ codes[j] = codes[i]}
  IN IF S = {} THEN 0 ELSE Min(S)

AreaDup ==
  SecondOfDuplicate([i \in DOMAIN input |-> input[i].stop_area_code],
                    [i \in DOMAIN input |-> input[i].ok])

StopDup ==
  SecondOfDuplicate([i \in DOMAIN input |-> input[i].atco_code],
                    [i \in DOMAIN input |->
                       input[i].ok /\ input[i].atco_code \in DOMAIN stops_in_area])

\* The row's easting and northing are finite numbers.
Convertible(row) == row.easting.finite /\ row.northing.finite

\* Longitude and latitude of the EPSG:27700 point of a convertible row, in
\* thousandths of a degree.
WGS84Of(row) ==
  IF row.easting.v = 358929 THEN [lon |-> -2593, lat |-> 51459]
  ELSE IF row.easting.v = 359657 THEN [lon |-> -2582, lat |-> 51449]
  ELSE [lon |-> -7743, lat |-> 51320]

\* C3 as stated: when two rows carry the same identifier the read fails at
\* the second such row, whatever the other fields hold, and nothing is
\* returned; no returned collection holds an identifier twice.
C3_FailsAtSecondDuplicate ==
  /\ (Returned("read_stop_areas") /\ AreaDup # 0) =>
        (ret.status = "Err" /\ ret.row = AreaDup /\ stop_areas = <<>>)
  /\ (Returned("read_stops") /\ StopDup # 0) =>
        (ret.status = "Err" /\ ret.row = StopDup /\ stop_points = <<>>)
  /\ pc = "return" => UniqueIds(ret.value)

\* C3 amended: when two rows carry the same identifier the read fails no
\* later than the second such row, and exactly there when every earlier row
\* decodes and projects (read_stop_areas) or decodes and resolves
\* (read_stops); nothing is returned, and no returned collection holds an
\* identifier twice.
C3_DuplicateIdFails ==
  /\ (Returned("read_stop_areas") /\ AreaDup # 0) =>
        /\ ret.status = "Err"
        /\ stop_areas = <<>>
        /\ ret.row <= AreaDup
        /\ (\A i \in 1..(AreaDup - 1) : input[i].ok /\ Convertible(input[i]))
              => ret.row = AreaDup
  /\ (Returned("read_stops") /\ StopDup # 0) =>
        /\ ret.status = "Err"
        /\ stop_points = <<>>
        /\ ret.row <= StopDup
        /\ (\A i \in 1..(StopDup - 1) :
               input[i].ok /\ input[i].atco_code \in DOMAIN stops_in_area)
              => (ret.row = StopDup /\ ret.kind = "duplicate")
  /\ pc = "return" => UniqueIds(ret.value)

C3_Witness ==
  /\ Returned("read_stop_areas")
  /\ Len(input) = 3
  /\ AreaDup = 3
  /\ input[1].name # input[3].name
  /\ input[1].easting # input[3].easting
  /\ ret.kind = "duplicate"
  /\ ret.row = 3

AreaRowsValidDistinct(rows) ==
  /\ \A i \in DOMAIN rows : rows[i].ok /\ Convertible(rows[i])
  /\ \A i, j \in DOMAIN rows :
        rows[i].stop_area_code = rows[j].stop_area_code => i = j

\* C8: valid stop-area rows with pairwise distinct codes are all read: the
\* collection has one entity per row, in row order, and get(code) carries the
\* row's name and the projection of its (easting, northing).
C8_StopAreasRead ==
  (Returned("read_stop_areas") /\ AreaRowsValidDistinct(input)) =>
    /\ ret.status = "Ok"
    /\ Len(stop_areas) = Len(input)
    /\ IdSeq(stop_areas) = [i \in DOMAIN input |-> input[i].stop_area_code]
    /\ \A i \in DOMAIN input :
          /\ input[i].stop_area_code \in Ids(stop_areas)
          /\ get(stop_areas, input[i].stop_area_code).name = input[i].name
          /\ get(stop_areas, input[i].stop_area_code).coord
               = WGS84Of(input[i])

C8_Witness ==
  /\ Returned("read_stop_areas")
  /\ ret.status = "Ok"
  /\ Len(stop_areas) = 3
  /\ input[1].easting # input[2].easting
  /\ input[1].name # input[2].name

\* C9 as stated: a row whose identifier column is empty is rejected by
\* read_stop_areas and, whatever the membership mapping holds, by read_stops;
\* no returned collection holds an entity with the empty identifier.
C9_EmptyIdRejected ==
  /\ (Returned("read_stop_areas")
        /\ \E i \in DOMAIN input : input[i].ok /\ input[i].stop_area_code = "")
       => ret.status = "Err"
  /\ (Returned("read_stops")
        /\ \E i \in DOMAIN input : input[i].ok /\ input[i].atco_code = "")
       => ret.status = "Err"
  /\ pc = "return" => "" \notin Ids(ret.value)

(***************************************************************************)
(* Properties of manage_calendars (checked under SpecCalendars).           *)
(***************************************************************************)
\* calendar.txt decodes into a collection and every exception row decodes.
CalendarFilesWellFormed ==
  /\ make_collection_with_id(input.calendar_txt).status = "Ok"
  /\ \A i \in DOMAIN input.calendar_dates_txt.rows :
        input.calendar_dates_txt.rows[i].ok

\* The (date, exception_type) pairs of the rows naming service id, in order.
ExceptionsOf(rows, id) ==
  LET sel == SelectSeq(rows, LAMBDA r : r.service_id = id)
  IN [i \in DOMAIN sel |-> <<sel[i].date, sel[i].exception_type>>]

\* C2: with well-formed exception rows manage_calendars returns Ok; rows of
\* an unknown service_id are dropped, every calendar ends with exactly the
\* pairs of the rows that reference it, in row order, and the calendars are
\* those of calendar.txt: exception rows create and remove none.
C2_ExceptionsAttached ==
  (Returned("manage_calendars") /\ CalendarFilesWellFormed) =>
    /\ ret.status = "Ok"
    /\ IdSeq(collections.calendars)
         = [i \in DOMAIN input.calendar_txt.rows |->
              input.calendar_txt.rows[i].service_id]
    /\ \A i \in DOMAIN collections.calendars :
          collections.calendars[i].calendar_dates
            = ExceptionsOf(input.calendar_dates_txt.rows,
                           collections.calendars[i].id)

C2_Witness ==
  /\ Returned("manage_calendars")
  /\ ret.status = "Ok"
  /\ Len(input.calendar_dates_txt.rows) = 3
  /\ input.calendar_dates_txt.rows[1].service_id
       \notin Ids(collections.calendars)
  /\ Len(collections.calendars) = 1
  /\ Len(collections.calendars[1].calendar_dates) = 2
  /\ collections.calendars[1].calendar_dates[1]
       # collections.calendars[1].calendar_dates[2]

\* C7 as stated: the decoded calendars are merged into the destination: every
\* calendar held before the call is still there afterwards, and a decoded
\* calendar whose service_id the destination already holds makes the call
\* fail.
C7_CalendarsMerged ==
  Returned("manage_calendars") =>
    /\ \A i \in DOMAIN collections0.calendars :
          \E j \in DOMAIN collections.calendars :
             /\ collections.calendars[j].id = collections0.calendars[i].id
             /\ collections.calendars[j].calendar_dates
                  = collections0.calendars[i].calendar_dates
    /\ (/\ input.calendar_txt.found
        /\ \E i \in DOMAIN input.calendar_txt.rows :
              /\ input.calendar_txt.rows[i].ok
              /\ input.calendar_txt.rows[i].service_id
                   \in Ids(collections0.calendars))
         => ret.status = "Err"

(***************************************************************************)
(* Properties of read_naptan (checked under Spec).                         *)
(***************************************************************************)
Disjoint(a, b) == Ids(a) \cap Ids(b) = {}

Holds(collection, item) == \E i \in DOMAIN collection : collection[i] = item

\* read_naptan has returned after reading the three entries successfully.
ParsedAndDone ==
  /\ call = "read_naptan" /\ pc = "done"
  /\ ret.step \notin {"open", "stop_areas", "stops_in_area", "stops"}

\* C4 as stated: with disjoint identifier sets the merges of read_naptan
\* succeed and the destination holds the union; with a common identifier
\* read_naptan fails and the stored entity is not overwritten.
C4_MergeIntoDestination ==
  ParsedAndDone =>
    /\ (Disjoint(collections0.stop_areas, stop_areas)
          /\ Disjoint(collections0.stop_points, stop_points))
         => /\ ret.status = "Ok"
            /\ collections.stop_areas = collections0.stop_areas \o stop_areas
            /\ collections.stop_points = collections0.stop_points \o stop_points
    /\ ~(Disjoint(collections0.stop_areas, stop_areas)
           /\ Disjoint(collections0.stop_points, stop_points))
         => /\ ret.status # "Ok"
            /\ \A i \in DOMAIN collections0.stop_areas :
                  Holds(collections.stop_areas, collections0.stop_areas[i])
            /\ \A i \in DOMAIN collections0.stop_points :
                  Holds(collections.stop_points, collections0.stop_points[i])

\* C5 as stated: once stop areas, membership and stops are read, validate_stops
\* returns successfully, and read_naptan returns Ok when the destination
\* holds none of the parsed identifiers.
C5_ValidationAcceptsValidData ==
  ParsedAndDone =>
    /\ ret.step # "validate"
    /\ ret.status # "Panic"
    /\ (Disjoint(collections0.stop_areas, stop_areas)
          /\ Disjoint(collections0.stop_points, stop_points))
         => ret.status = "Ok"

\* C6 as stated: when the three reads succeed, every StopPoint's stop_area_id
\* is the identifier of a StopArea read from the stop-area file.
C6_StopAreaExists ==
  (call = "read_naptan" /\ (pc = "validate" \/ ParsedAndDone)) =>
    \A i \in DOMAIN stop_points : stop_points[i].stop_area_id \in Ids(stop_areas)

\* Some parsed stop area was put into the destination while some parsed stop
\* point was not.
AreasLeftWithoutPoints ==
  /\ \E i \in DOMAIN stop_areas :
        /\ Holds(collections.stop_areas, stop_areas[i])
        /\ ~Holds(collections0.stop_areas, stop_areas[i])
  /\ \E i \in DOMAIN stop_points :
        ~Holds(collections.stop_points, stop_points[i])

\* read_naptan has not got to the merges: it is at one of the steps up to the
\* validation, or has ended at one of them.
NotPastValidation ==
  \/ pc \in {"open", "stop_areas", "stops_in_area", "stops", "validate"}
  \/ ret.step \in {"open", "stop_areas", "stops_in_area", "stops", "validate"}

====
